---- MODULE Spec2Model ----
(***************************************************************************)
(* Model of the filter-and-aggregate pipeline of the SCP savings dashboard *)
(* (app.py).  One run of the script is: load the sheet, preprocess it      *)
(* (rename, numeric and date coercion), read the filter widgets, apply the *)
(* filters, compute the summary insights, the grouped chart data and the   *)
(* portfolio metrics.  A widget change reruns the script on the cached     *)
(* sheet.                                                                  *)
(*                                                                         *)
(* Data representation.  A DataFrame is [columns, rows]; a row is a        *)
(* function from column name to cell.  A raw measure or date cell is       *)
(* [k, v] with k the kind of the Excel cell; a coerced date is <<ts>> or   *)
(* NaT (<<>>), ts counting half days (even = midnight); a date picked in   *)
(* a date_input is <<day>> or None (<<>>); a categorical cell is a string, *)
(* NaN being the marker of an empty cell.  Measures are integers (exact    *)
(* arithmetic).                                                            *)
(***************************************************************************)
EXTENDS Integers, Sequences, FiniteSets, TLC

VARIABLES pc, sheet, df,
          start_date_filter, end_date_filter,
          finance_fy_filter, scp_fy_filter, domain_filter,
          filtered_df,
          total_finance_savings, gains_finance, risks_finance,
          total_scp_savings, gains_scp, risks_scp,
          finance_fy_data, scp_fy_data, domain_finance,
          active_contracts, avg_finance, avg_scp,
          onedrive_url, attempts, load_message

filters == <<start_date_filter, end_date_filter,
             finance_fy_filter, scp_fy_filter, domain_filter>>
insights == <<total_finance_savings, gains_finance, risks_finance,
              total_scp_savings, gains_scp, risks_scp>>
charts == <<finance_fy_data, scp_fy_data, domain_finance>>
portfolio == <<active_contracts, avg_finance, avg_scp>>
loader == <<onedrive_url, attempts, load_message>>
vars == <<pc, sheet, df, filters, filtered_df, insights, charts, portfolio,
          loader>>

(***************************************************************************)
(* Bounds and the input universe                                           *)
(***************************************************************************)
MaxRows == 3

NaN == "NaN"
NaT == <<>>
None == <<>>

Num(n) == [k |-> "num", v |-> n]
NumStr(n) == [k |-> "numstr", v |-> n]
Text == [k |-> "text", v |-> 0]
Blank == [k |-> "missing", v |-> 0]
Date(ts) == [k |-> "date", v |-> ts]

RawColumns == {"Difference (PA)-Finance", "Difference (PA) -SCP",
               "Contract Start", "Contract End",
               "FY of Savings-Finance", "FY of Savings-SCP", "Domain"}

MkRow(fin, scp, cs, ce, ffy, sfy, dom) ==
    [c \in RawColumns |->
        CASE c = "Difference (PA)-Finance" -> fin
          [] c = "Difference (PA) -SCP" -> scp
          [] c = "Contract Start" -> cs
          [] c = "Contract End" -> ce
          [] c = "FY of Savings-Finance" -> ffy
          [] c = "FY of Savings-SCP" -> sfy
          [] OTHER -> dom]

SampleRows ==
    { MkRow(Num(100), Num(50), Date(0), Date(4), "FY25", "FY25", "IT"),
      MkRow(Num(-40), Text, Date(2), Date(5), "FY25", "FY26", "IT"),
      MkRow(Text, Num(-20), Text, Date(2), "FY26", "FY26", "HR"),
      MkRow(Num(30), Num(0), Date(1), Blank, NaN, "FY25", NaN),
      MkRow(Blank, NumStr(10), Blank, Text, "FY26", NaN, "HR"),
      MkRow(Num(-40), Num(-50), Date(4), Date(4), "FY26", "FY25", "HR") }

Schemas == {RawColumns} \cup {RawColumns \ {c} : c \in RawColumns}
                        \cup {RawColumns \ {"Contract Start", "Contract End"}}

SeqsUpTo(S, n) == UNION {[1..m -> S] : m \in 0..n}

Restrict(row, cols) == [c \in cols |-> row[c]]

Sheets == { [columns |-> cols,
             rows |-> [i \in 1..Len(rs) |-> Restrict(rs[i], cols)]] :
            cols \in Schemas, rs \in SeqsUpTo(SampleRows, MaxRows) }

StrOrder == <<"FY25", "FY26", "HR", "IT", "NaN">>
Rank(s) == CHOOSE i \in 1..Len(StrOrder) : StrOrder[i] = s
StrLess(a, b) == Rank(a) < Rank(b)

EmptyFrame == [columns |-> {}, rows |-> <<>>]
NoMean == [nan |-> FALSE, num |-> 0, den |-> 1]

(***************************************************************************)
(* Preprocessing                                                           *)
(***************************************************************************)
RenameColumn(c) ==
    CASE c = "Difference (PA)-Finance" -> "Savings_Finance"
      [] c = "Difference (PA) -SCP" -> "Savings_SCP"
      [] OTHER -> c

OldName(c) ==
    CASE c = "Savings_Finance" -> "Difference (PA)-Finance"
      [] c = "Savings_SCP" -> "Difference (PA) -SCP"
      [] OTHER -> c

Rename(frame) ==
    LET cols == {RenameColumn(c) : c \in frame.columns}
    IN [columns |-> cols,
        rows |-> [i \in 1..Len(frame.rows) |->
                     [c \in cols |-> frame.rows[i][OldName(c)]]]]

\* pd.to_numeric(errors="coerce"): a number or a numeric string parses,
\* anything else is NaN (<<>>)
ToNumeric(cell) ==
    IF cell.k \in {"num", "numstr"} THEN <<cell.v>> ELSE <<>>

FillNa0(x) == IF x = <<>> THEN 0 ELSE x[1]

\* pd.to_datetime(errors="coerce")
ToDatetime(cell) ==
    IF cell.k = "date" THEN <<cell.v>> ELSE NaT

MapColumn(frame, col, f(_)) ==
    [columns |-> frame.columns,
     rows |-> [i \in 1..Len(frame.rows) |->
                 [c \in frame.columns |->
                     IF c = col THEN f(frame.rows[i][c])
                     ELSE frame.rows[i][c]]]]

EnsureNumeric(cell) == FillNa0(ToNumeric(cell))

ConvertDates(frame) ==
    LET f1 == IF "Contract Start" \in frame.columns
              THEN MapColumn(frame, "Contract Start", ToDatetime)
              ELSE frame
    IN IF "Contract End" \in f1.columns
       THEN MapColumn(f1, "Contract End", ToDatetime)
       ELSE f1

MeasureColumns == {"Savings_Finance", "Savings_SCP"}

\* variant: rows whose measure does not parse are dropped instead of zeroed
NormalizeDropNa(frame) ==
    LET parses(r) == /\ ToNumeric(r["Savings_Finance"]) # <<>>
                     /\ ToNumeric(r["Savings_SCP"]) # <<>>
        kept == [columns |-> Rename(frame).columns,
                 rows |-> SelectSeq(Rename(frame).rows, parses)]
    IN ConvertDates(MapColumn(MapColumn(kept, "Savings_Finance", EnsureNumeric),
                              "Savings_SCP", EnsureNumeric))

Normalize(frame) ==
    ConvertDates(MapColumn(MapColumn(Rename(frame),
                                     "Savings_Finance", EnsureNumeric),
                           "Savings_SCP", EnsureNumeric))

\* variant: the date columns are required as well
PreprocessRaisesDatesRequired(frame) ==
    ~((MeasureColumns \cup {"Contract Start", "Contract End"})
          \subseteq Rename(frame).columns)

\* df["Savings_Finance"] / df["Savings_SCP"] raise KeyError when the renamed
\* frame lacks the column; a date column is converted only if present
PreprocessRaises(frame) == ~(MeasureColumns \subseteq Rename(frame).columns)

(***************************************************************************)
(* Series and frame helpers                                                *)
(***************************************************************************)
RECURSIVE SumSeq(_)
\* Series.sum(): 0 for an empty series
SumSeq(s) == IF s = <<>> THEN 0 ELSE Head(s) + SumSeq(Tail(s))

Col(frame, c) == [i \in 1..Len(frame.rows) |-> frame.rows[i][c]]

\* frame[mask]: the rows satisfying the mask, in order
SelectRows(frame, P(_)) ==
    [columns |-> frame.columns, rows |-> SelectSeq(frame.rows, P)]

\* Series.min() / Series.max() of a datetime column: NaT values are
\* skipped, NaT when nothing is left
Present(frame, c) ==
    {frame.rows[i][c][1] : i \in {j \in 1..Len(frame.rows) : frame.rows[j][c] # NaT}}
ColMin(frame, c) ==
    LET S == Present(frame, c)
    IN IF S = {} THEN NaT ELSE <<CHOOSE x \in S : \A y \in S : x <= y>>
ColMax(frame, c) ==
    LET S == Present(frame, c)
    IN IF S = {} THEN NaT ELSE <<CHOOSE x \in S : \A y \in S : x >= y>>

\* Timestamp.date() drops the time of day; pd.Timestamp(date) is midnight
DateOf(ts) == ts \div 2
Timestamp(d) == 2 * d

RECURSIVE SortedSeq(_)
\* sorted(...) of a set of labels
SortedSeq(S) ==
    IF S = {} THEN <<>>
    ELSE LET m == CHOOSE x \in S : \A y \in S : x = y \/ StrLess(x, y)
         IN <<m>> \o SortedSeq(S \ {m})

\* Series.dropna().unique()
DropNaUnique(frame, c) ==
    {frame.rows[i][c] : i \in 1..Len(frame.rows)} \ {NaN}

Range(s) == {s[i] : i \in 1..Len(s)}

(***************************************************************************)
(* Filter widgets                                                          *)
(***************************************************************************)
\* the dates a date_input offers: [min.date(), max.date()], or no widget
\* (None) when the column is absent or holds no valid date
DateChoices(frame, c) ==
    IF c \in frame.columns /\ ColMin(frame, c) # NaT /\ ColMax(frame, c) # NaT
    THEN {<<d>> : d \in DateOf(ColMin(frame, c)[1])..DateOf(ColMax(frame, c)[1])}
    ELSE {None}

FyOptions(frame, c) ==
    IF c \in frame.columns
    THEN <<"All">> \o SortedSeq(DropNaUnique(frame, c))
    ELSE <<"All">>

DomainOptions(frame) ==
    IF "Domain" \in frame.columns
    THEN <<"All Domains">> \o SortedSeq(DropNaUnique(frame, "Domain"))
    ELSE <<"All Domains">>

(***************************************************************************)
(* Apply filters                                                           *)
(***************************************************************************)
\* variant: a NaT cell passes the comparison
GeTimestampNaTPasses(cell, ts) == cell = NaT \/ cell[1] >= ts

\* Series >= Timestamp: False for NaT
GeTimestamp(cell, ts) == cell # NaT /\ cell[1] >= ts
\* variant: strict upper bound
LeTimestampStrict(cell, ts) == cell # NaT /\ cell[1] < ts

\* Series <= Timestamp: False for NaT
LeTimestamp(cell, ts) == cell # NaT /\ cell[1] <= ts
\* variant: a NaN cell passes the comparison
EqLabelNaNPasses(cell, label) == cell = NaN \/ cell = label

\* Series == label: False for NaN
EqLabel(cell, label) == cell # NaN /\ cell = label

StartStage(frame, f) ==
    IF f # None /\ "Contract Start" \in frame.columns
    THEN LET keep(r) == GeTimestamp(r["Contract Start"], Timestamp(f[1]))
         IN SelectRows(frame, keep)
    ELSE frame

EndStage(frame, f) ==
    IF f # None /\ "Contract End" \in frame.columns
    THEN LET keep(r) == LeTimestamp(r["Contract End"], Timestamp(f[1]))
         IN SelectRows(frame, keep)
    ELSE frame

\* variant: under the sentinel the rows are matched against the offered
\* options, which hold no NaN
FinanceFyStageIsin(frame, f) ==
    IF f # "All"
    THEN LET keep(r) == EqLabel(r["FY of Savings-Finance"], f)
         IN SelectRows(frame, keep)
    ELSE IF "FY of Savings-Finance" \in frame.columns
         THEN LET known(r) == r["FY of Savings-Finance"] # NaN
              IN SelectRows(frame, known)
         ELSE frame

FinanceFyStage(frame, f) ==
    IF f # "All"
    THEN LET keep(r) == EqLabel(r["FY of Savings-Finance"], f)
         IN SelectRows(frame, keep)
    ELSE frame

ScpFyStage(frame, f) ==
    IF f # "All"
    THEN LET keep(r) == EqLabel(r["FY of Savings-SCP"], f)
         IN SelectRows(frame, keep)
    ELSE frame

\* variant: the sentinel is compared like any other label
DomainStageNoSentinel(frame, f) ==
    IF "Domain" \in frame.columns
    THEN LET keep(r) == EqLabel(r["Domain"], f)
         IN SelectRows(frame, keep)
    ELSE frame

DomainStage(frame, f) ==
    IF f # "All Domains"
    THEN LET keep(r) == EqLabel(r["Domain"], f)
         IN SelectRows(frame, keep)
    ELSE frame

ApplyAll(frame, sd, ed, ffy, sfy, dom) ==
    DomainStage(ScpFyStage(FinanceFyStage(EndStage(StartStage(frame, sd), ed),
                                          ffy), sfy), dom)

(***************************************************************************)
(* Aggregation                                                             *)
(***************************************************************************)
Positive(x) == x > 0
Negative(x) == x < 0

\* filtered_df.loc[filtered_df[c] > 0, c].sum()
GainsOf(frame, c) == SumSeq(SelectSeq(Col(frame, c), Positive))
\* variant: the exposure is kept as a magnitude
RisksOfAbs(frame, c) == 0 - SumSeq(SelectSeq(Col(frame, c), Negative))

\* filtered_df.loc[filtered_df[c] < 0, c].sum()
RisksOf(frame, c) == SumSeq(SelectSeq(Col(frame, c), Negative))
TotalOf(frame, c) == SumSeq(Col(frame, c))

\* Series.mean(): sum / count, NaN for an empty series
MeanOf(frame, c) ==
    [nan |-> Len(frame.rows) = 0,
     num |-> TotalOf(frame, c),
     den |-> Len(frame.rows)]

\* variant: one group per category of the whole dataset, observed or not
GroupKeysAllCategories(frame, key) == DropNaUnique(df, key)

\* groupby(key)[measure].sum().reset_index(): one row per key value in
\* ascending key order; groupby's default dropna=True leaves out the rows
\* whose key is NaN
GroupKeys(frame, key) == DropNaUnique(frame, key)

GroupSum(frame, key, measure, k) ==
    LET member(r) == r[key] = k
    IN TotalOf(SelectRows(frame, member), measure)

GroupBySum(frame, key, measure) ==
    LET ks == SortedSeq(GroupKeys(frame, key))
    IN [i \in 1..Len(ks) |->
          [category |-> ks[i], value |-> GroupSum(frame, key, measure, ks[i])]]

Perms(s) ==
    {t \in [1..Len(s) -> Range(s)] : \A x \in Range(s) : \E i \in 1..Len(s) : t[i] = x}

\* sort_values(key): keys are distinct, the order is determined
SortByCategory(s) ==
    CHOOSE t \in Perms(s) :
        \A i, j \in 1..Len(t) : i < j => StrLess(t[i].category, t[j].category)

\* sort_values(measure, ascending=True) with the default kind="quicksort":
\* ascending by value, the order of equal values is not specified
SortsByValue(s) ==
    {t \in Perms(s) : \A i, j \in 1..Len(t) : i < j => t[i].value <= t[j].value}

(***************************************************************************)
(* The loader: load_data_from_onedrive                                     *)
(*                                                                         *)
(* A URL is the set of substrings the code looks for in it plus what has   *)
(* been appended to it.  A response is what requests.get gave: an          *)
(* exception, or a status code, a content length and what read_excel makes *)
(* of the content.  attempts is the log of the sources tried by the        *)
(* current call.                                                           *)
(***************************************************************************)
HttpOk == 200
MinContent == 1000

Url(live, short, download, query) ==
    [live |-> live, short |-> short, download |-> download, query |-> query,
     appended |-> ""]

\* the text_input default: an onedrive.live.com link with a query string
default_url == Url(TRUE, FALSE, FALSE, TRUE)

Urls == { default_url,
          Url(TRUE, FALSE, FALSE, FALSE),
          Url(TRUE, FALSE, TRUE, TRUE),
          Url(FALSE, TRUE, FALSE, FALSE),
          Url(FALSE, FALSE, FALSE, TRUE) }

NoUrl == [live |-> FALSE, short |-> FALSE, download |-> FALSE, query |-> FALSE,
          appended |-> "local"]

get_onedrive_direct_link(share_url) ==
    LET separator == IF share_url.query THEN "&" ELSE "?"
        with == [share_url EXCEPT !.appended =
                    IF separator = "&" THEN "&download=1" ELSE "?download=1"]
    IN IF share_url.live /\ ~share_url.download THEN with
       ELSE IF share_url.short THEN with
       ELSE share_url

\* the sheets a source can hold (the loader looks at the row count only)
LoadSheets ==
    { [columns |-> RawColumns, rows |-> rs] :
        rs \in SeqsUpTo(SampleRows, MaxRows) }

Outcome(raised, status, len, parsed, frame) ==
    [raised |-> raised, status_code |-> status, content_len |-> len,
     parsed |-> parsed, frame |-> frame]

\* what a remote request can give: requests.get raises; a response that is
\* not parsed; a response whose content read_excel rejects; a parsed sheet
Responses ==
    {Outcome("ConnectionError", 0, 0, "none", EmptyFrame)}
    \cup {Outcome("", st, n, "none", EmptyFrame) :
            st \in {HttpOk, 404}, n \in {MinContent, MinContent + 1}}
    \cup {Outcome("ValueError", HttpOk, MinContent + 1, "error", EmptyFrame)}
    \cup {Outcome("", HttpOk, MinContent + 1, "frame", f) : f \in LoadSheets}

\* what reading the local file can give
LocalReads ==
    {Outcome(e, 0, 0, "error", EmptyFrame) : e \in {"FileNotFoundError", "ValueError"}}
    \cup {Outcome("", 0, 0, "frame", f) : f \in LoadSheets}

\* whether the content of a response gets parsed at all
Parses(resp) ==
    /\ resp.raised \in {"", "ValueError"}
    /\ resp.status_code = HttpOk
    /\ resp.content_len > MinContent

\* a response is possible only if it was parsed exactly when the code parses
Possible(resp) == (resp.parsed # "none") <=> Parses(resp)

\* variant: the parsed sheet is returned without the len(df) > 0 check
RemoteSucceedsAnyFrame(resp) ==
    /\ resp.raised = ""
    /\ resp.status_code = HttpOk
    /\ resp.content_len > MinContent
    /\ resp.parsed = "frame"

\* status 200, more than 1000 bytes, read_excel succeeds, len(df) > 0
RemoteSucceeds(resp) ==
    /\ resp.raised = ""
    /\ resp.status_code = HttpOk
    /\ resp.content_len > MinContent
    /\ resp.parsed = "frame"
    /\ Len(resp.frame.rows) > 0

\* the except clauses around each method; every exception the sources can
\* raise derives from Exception
InnerClauses(method) ==
    CASE method = 1 -> {"Exception"}
      [] method = 2 -> {"bare"}
      [] OTHER -> {"FileNotFoundError", "Exception"}

Catches(clause, e) == clause \in {"bare", "Exception"} \/ clause = e

CaughtInner(method, e) == \E c \in InnerClauses(method) : Catches(c, e)

Attempt(source, url, resp) == [source |-> source, url |-> url, resp |-> resp]

MsgDirect == "OneDrive file loaded successfully"
MsgOriginal == "OneDrive file loaded (alternative method)"
MsgLocal == "Using local file (OneDrive access failed - check URL and permissions)"
MsgNoLocal == "OneDrive connection failed and no local file found"
MsgLocalError == "Error loading local file"
MsgCritical == "Critical error"

(***************************************************************************)
(* State machine                                                           *)
(***************************************************************************)
Init ==
    /\ pc = "start"
    /\ sheet = EmptyFrame
    /\ df = EmptyFrame
    /\ start_date_filter = None
    /\ end_date_filter = None
    /\ finance_fy_filter = "All"
    /\ scp_fy_filter = "All"
    /\ domain_filter = "All Domains"
    /\ filtered_df = EmptyFrame
    /\ total_finance_savings = 0
    /\ gains_finance = 0
    /\ risks_finance = 0
    /\ total_scp_savings = 0
    /\ gains_scp = 0
    /\ risks_scp = 0
    /\ finance_fy_data = <<>>
    /\ scp_fy_data = <<>>
    /\ domain_finance = <<>>
    /\ active_contracts = 0
    /\ avg_finance = NoMean
    /\ avg_scp = NoMean
    /\ onedrive_url = default_url
    /\ attempts = <<>>
    /\ load_message = ""

\* df, load_message = load_data_from_onedrive(onedrive_url); df is not None.
\* The call is one step here; SpecLoad below follows it source by source.
LoadData ==
    /\ pc = "start"
    /\ \E s \in Sheets :
         /\ sheet' = s
         /\ df' = s
    /\ pc' = "loaded"
    /\ UNCHANGED <<filters, filtered_df, insights, charts, portfolio>>
    /\ UNCHANGED loader

\* the loader returned (None, message): the error branch of the page
LoadFailed ==
    /\ pc = "start"
    /\ pc' = "load_failed"
    /\ UNCHANGED <<sheet, df, filters, filtered_df, insights, charts, portfolio>>
    /\ UNCHANGED loader

\* rename, numeric coercion, date coercion; indexing a measure column the
\* sheet does not have raises KeyError and ends the run
Preprocess ==
    /\ pc = "loaded"
    /\ IF ~PreprocessRaises(df)
       THEN /\ df' = Normalize(df)
            /\ pc' = "filters"
       ELSE /\ df' = IF "Savings_Finance" \in Rename(df).columns
                     THEN MapColumn(Rename(df), "Savings_Finance", EnsureNumeric)
                     ELSE Rename(df)
            /\ pc' = "key_error"
    /\ UNCHANGED <<sheet, filters, filtered_df, insights, charts, portfolio>>
    /\ UNCHANGED loader

\* the filter widgets: every choice the widgets offer for this df
SelectFilters ==
    /\ pc = "filters"
    /\ start_date_filter' \in DateChoices(df, "Contract Start")
    /\ end_date_filter' \in DateChoices(df, "Contract End")
    /\ finance_fy_filter' \in Range(FyOptions(df, "FY of Savings-Finance"))
    /\ scp_fy_filter' \in Range(FyOptions(df, "FY of Savings-SCP"))
    /\ domain_filter' \in Range(DomainOptions(df))
    /\ pc' = "apply"
    /\ UNCHANGED <<sheet, df, filtered_df, insights, charts, portfolio>>
    /\ UNCHANGED loader

ApplyFilters ==
    /\ pc = "apply"
    /\ filtered_df' = ApplyAll(df, start_date_filter, end_date_filter,
                               finance_fy_filter, scp_fy_filter, domain_filter)
    /\ pc' = "insights"
    /\ UNCHANGED <<sheet, df, filters, insights, charts, portfolio>>
    /\ UNCHANGED loader

CalculateInsights ==
    /\ pc = "insights"
    /\ total_finance_savings' = TotalOf(filtered_df, "Savings_Finance")
    /\ gains_finance' = GainsOf(filtered_df, "Savings_Finance")
    /\ risks_finance' = RisksOf(filtered_df, "Savings_Finance")
    /\ total_scp_savings' = TotalOf(filtered_df, "Savings_SCP")
    /\ gains_scp' = GainsOf(filtered_df, "Savings_SCP")
    /\ risks_scp' = RisksOf(filtered_df, "Savings_SCP")
    /\ pc' = "analytics"
    /\ UNCHANGED <<sheet, df, filters, filtered_df, charts, portfolio>>
    /\ UNCHANGED loader

\* the two fiscal-year charts
StrategicAnalytics ==
    /\ pc = "analytics"
    /\ finance_fy_data' =
         IF "FY of Savings-Finance" \in filtered_df.columns
         THEN SortByCategory(GroupBySum(filtered_df, "FY of Savings-Finance",
                                        "Savings_Finance"))
         ELSE finance_fy_data
    /\ scp_fy_data' =
         IF "FY of Savings-SCP" \in filtered_df.columns
         THEN SortByCategory(GroupBySum(filtered_df, "FY of Savings-SCP",
                                        "Savings_SCP"))
         ELSE scp_fy_data
    /\ pc' = "domain"
    /\ UNCHANGED <<sheet, df, filters, filtered_df, insights, domain_finance,
                   portfolio>>
    /\ UNCHANGED loader

DomainAnalysis ==
    /\ pc = "domain"
    /\ IF "Domain" \in filtered_df.columns
       THEN domain_finance' \in
              SortsByValue(GroupBySum(filtered_df, "Domain", "Savings_Finance"))
       ELSE domain_finance' = domain_finance
    /\ pc' = "portfolio"
    /\ UNCHANGED <<sheet, df, filters, filtered_df, insights, finance_fy_data,
                   scp_fy_data, portfolio>>
    /\ UNCHANGED loader

PortfolioOverview ==
    /\ pc = "portfolio"
    /\ active_contracts' = Len(filtered_df.rows)
    /\ avg_finance' = MeanOf(filtered_df, "Savings_Finance")
    /\ avg_scp' = MeanOf(filtered_df, "Savings_SCP")
    /\ pc' = "done"
    /\ UNCHANGED <<sheet, df, filters, filtered_df, insights, charts>>
    /\ UNCHANGED loader

\* a widget change reruns the script; st.cache_data hands out the loaded
\* sheet again and every derived value is recomputed from scratch
Rerun ==
    /\ pc = "done"
    /\ df' = sheet
    /\ pc' = "loaded"
    /\ start_date_filter' = None
    /\ end_date_filter' = None
    /\ finance_fy_filter' = "All"
    /\ scp_fy_filter' = "All"
    /\ domain_filter' = "All Domains"
    /\ filtered_df' = EmptyFrame
    /\ total_finance_savings' = 0
    /\ gains_finance' = 0
    /\ risks_finance' = 0
    /\ total_scp_savings' = 0
    /\ gains_scp' = 0
    /\ risks_scp' = 0
    /\ finance_fy_data' = <<>>
    /\ scp_fy_data' = <<>>
    /\ domain_finance' = <<>>
    /\ active_contracts' = 0
    /\ avg_finance' = NoMean
    /\ avg_scp' = NoMean
    /\ UNCHANGED <<sheet, loader>>

Next ==
    \/ LoadData
    \/ LoadFailed
    \/ Preprocess
    \/ SelectFilters
    \/ ApplyFilters
    \/ CalculateInsights
    \/ StrategicAnalytics
    \/ DomainAnalysis
    \/ PortfolioOverview
    \/ Rerun

Spec == Init /\ [][Next]_vars

(***************************************************************************)
(* The loader as a state machine of its own: one call of                  *)
(* load_data_from_onedrive, from the URL typed in the sidebar to its       *)
(* return                                                                  *)
(***************************************************************************)
InitLoad ==
    /\ pc = "method1"
    /\ onedrive_url \in Urls
    /\ attempts = <<>>
    /\ load_message = ""
    /\ sheet = EmptyFrame
    /\ df = EmptyFrame
    /\ start_date_filter = None
    /\ end_date_filter = None
    /\ finance_fy_filter = "All"
    /\ scp_fy_filter = "All"
    /\ domain_filter = "All Domains"
    /\ filtered_df = EmptyFrame
    /\ total_finance_savings = 0
    /\ gains_finance = 0
    /\ risks_finance = 0
    /\ total_scp_savings = 0
    /\ gains_scp = 0
    /\ risks_scp = 0
    /\ finance_fy_data = <<>>
    /\ scp_fy_data = <<>>
    /\ domain_finance = <<>>
    /\ active_contracts = 0
    /\ avg_finance = NoMean
    /\ avg_scp = NoMean

\* return df, message
ReturnFrame(frame, message) ==
    /\ sheet' = frame
    /\ df' = frame
    /\ load_message' = message
    /\ pc' = "loaded"

\* return None, message
ReturnNone(message) ==
    /\ load_message' = message
    /\ pc' = "load_failed"
    /\ UNCHANGED <<sheet, df>>

\* an exception no inner clause caught reaches the outer except Exception
Outer(e) ==
    IF Catches("Exception", e)
    THEN ReturnNone(MsgCritical)
    ELSE /\ pc' = "escaped"
         /\ UNCHANGED <<sheet, df, load_message>>

\* one remote method: the request, the checks on the response, read_excel
Remote(method, source, url, message, next) ==
    \E resp \in Responses :
        /\ Possible(resp)
        /\ attempts' = Append(attempts, Attempt(source, url, resp))
        /\ IF resp.raised # "" /\ ~CaughtInner(method, resp.raised)
           THEN Outer(resp.raised)
           ELSE IF RemoteSucceeds(resp)
           THEN ReturnFrame(resp.frame, message)
           ELSE /\ pc' = next
                /\ UNCHANGED <<sheet, df, load_message>>

\* Method 1: direct OneDrive download
TryDirect ==
    /\ pc = "method1"
    /\ Remote(1, "direct", get_onedrive_direct_link(onedrive_url),
              MsgDirect, "method2")
    /\ UNCHANGED <<onedrive_url, filters, filtered_df, insights, charts,
                   portfolio>>

\* Method 2: the original URL without modification
TryOriginal ==
    /\ pc = "method2"
    /\ Remote(2, "original", onedrive_url, MsgOriginal, "method3")
    /\ UNCHANGED <<onedrive_url, filters, filtered_df, insights, charts,
                   portfolio>>

\* Method 3: fallback to the local file; the row count is not checked
TryLocal ==
    /\ pc = "method3"
    /\ \E read \in LocalReads :
         /\ attempts' = Append(attempts, Attempt("local", NoUrl, read))
         /\ IF read.raised = ""
            THEN ReturnFrame(read.frame, MsgLocal)
            ELSE IF ~CaughtInner(3, read.raised)
            THEN Outer(read.raised)
            ELSE IF Catches("FileNotFoundError", read.raised)
            THEN ReturnNone(MsgNoLocal)
            ELSE ReturnNone(MsgLocalError)
    /\ UNCHANGED <<onedrive_url, filters, filtered_df, insights, charts,
                   portfolio>>

NextLoad ==
    \/ TryDirect
    \/ TryOriginal
    \/ TryLocal

SpecLoad == InitLoad /\ [][NextLoad]_vars
(***************************************************************************)
(* Properties                                                              *)
(***************************************************************************)
Filtered == pc \in {"insights", "analytics", "domain", "portfolio", "done"}
InsightsDone == pc \in {"analytics", "domain", "portfolio", "done"}
ChartsDone == pc \in {"portfolio", "done"}

Rows(frame) == Range(frame.rows)
Has(c) == c \in df.columns

AnyDateActive == start_date_filter # None \/ end_date_filter # None
AnyStageActive ==
    \/ AnyDateActive
    \/ finance_fy_filter # "All"
    \/ scp_fy_filter # "All"
    \/ domain_filter # "All Domains"

\* C1: conservation.  Once the insights of a filtered view are computed,
\* for each measure column the total equals the sum over the positive
\* values plus the sum over the negative values.
C1_Conservation ==
    InsightsDone =>
        /\ total_finance_savings = gains_finance + risks_finance
        /\ total_scp_savings = gains_scp + risks_scp

C1_Witness ==
    /\ pc = "analytics"
    /\ AnyStageActive
    /\ gains_finance > 0
    /\ risks_finance < 0
    /\ \E r \in Rows(filtered_df) : r["Savings_Finance"] = 0
    /\ gains_scp > 0
    /\ risks_scp < 0

\* C2: the mean of each measure column is 0 (not NaN) when the filtered
\* view has no records, and total / count when it has some.
C2_MeanDefined ==
    pc = "done" =>
        /\ active_contracts = 0 =>
              /\ ~avg_finance.nan /\ avg_finance.num = 0
              /\ ~avg_scp.nan /\ avg_scp.num = 0
        /\ active_contracts > 0 =>
              /\ ~avg_finance.nan
              /\ avg_finance.num = total_finance_savings
              /\ avg_finance.den = active_contracts
              /\ ~avg_scp.nan
              /\ avg_scp.num = total_scp_savings
              /\ avg_scp.den = active_contracts

Categories(agg) == {agg[i].category : i \in 1..Len(agg)}
KeyValues(frame, key) == {r[key] : r \in Rows(frame)}

OnePairPerValue(agg, key) ==
    Has(key) =>
        /\ Categories(agg) = KeyValues(filtered_df, key)
        /\ Len(agg) = Cardinality(KeyValues(filtered_df, key))

\* C3: each grouped aggregate has exactly one (category, sum) pair per
\* distinct value of its group column present in the filtered view, the
\* missing value counting as a group of its own.
C3_GroupPerDistinctValue ==
    ChartsDone =>
        /\ OnePairPerValue(finance_fy_data, "FY of Savings-Finance")
        /\ OnePairPerValue(scp_fy_data, "FY of Savings-SCP")
        /\ OnePairPerValue(domain_finance, "Domain")

Values(agg) == [i \in 1..Len(agg) |-> agg[i].value]

\* C4: partition completeness.  The values of each grouped aggregate add
\* up to the summary total of the same measure over the same view.
C4_PartitionComplete ==
    ChartsDone =>
        /\ Has("FY of Savings-Finance") =>
              SumSeq(Values(finance_fy_data)) = total_finance_savings
        /\ Has("FY of Savings-SCP") =>
              SumSeq(Values(scp_fy_data)) = total_scp_savings
        /\ Has("Domain") =>
              SumSeq(Values(domain_finance)) = total_finance_savings

EmptyFilterSpec ==
    /\ start_date_filter = None
    /\ end_date_filter = None
    /\ finance_fy_filter = "All"
    /\ scp_fy_filter = "All"
    /\ domain_filter = "All Domains"

\* C5: identity law.  With no date bound set and every categorical filter
\* at its accept-all sentinel the filtered view is the normalized dataset:
\* same records, same order.
C5_Identity ==
    (Filtered /\ EmptyFilterSpec) => filtered_df = df

C5_Witness ==
    /\ pc = "insights"
    /\ EmptyFilterSpec
    /\ Len(df.rows) = MaxRows
    /\ filtered_df = df
    /\ df.rows[1] # df.rows[2]
    /\ Has("Contract Start") /\ Has("Domain") /\ Has("FY of Savings-SCP")
    /\ \E r \in Rows(df) : r["Contract Start"] = NaT /\ r["FY of Savings-SCP"] = NaN
Survives(r) == r \in Rows(filtered_df)

StartActive == start_date_filter # None /\ Has("Contract Start")
EndActive == end_date_filter # None /\ Has("Contract End")

\* the predicates of the filter specification, as the spec states them
InStartRange(r) ==
    StartActive =>
        /\ r["Contract Start"] # NaT
        /\ r["Contract Start"][1] >= Timestamp(start_date_filter[1])
InEndRange(r) ==
    EndActive =>
        /\ r["Contract End"] # NaT
        /\ r["Contract End"][1] <= Timestamp(end_date_filter[1])
AcceptsFinanceFy(r) ==
    finance_fy_filter # "All" => r["FY of Savings-Finance"] = finance_fy_filter
AcceptsScpFy(r) ==
    scp_fy_filter # "All" => r["FY of Savings-SCP"] = scp_fy_filter
AcceptsDomain(r) ==
    domain_filter # "All Domains" => r["Domain"] = domain_filter
AcceptsCategories(r) ==
    AcceptsFinanceFy(r) /\ AcceptsScpFy(r) /\ AcceptsDomain(r)

AbsentStart(r) == Has("Contract Start") /\ r["Contract Start"] = NaT
AbsentEnd(r) == Has("Contract End") /\ r["Contract End"] = NaT

\* C6: a record whose date is absent never survives an active range
\* predicate on that date column, and is not removed on account of that
\* column when no range predicate on it is active.
C6_AbsentDate ==
    Filtered =>
        \A r \in Rows(df) :
            /\ (AbsentStart(r) /\ StartActive) => ~Survives(r)
            /\ (AbsentEnd(r) /\ EndActive) => ~Survives(r)
            /\ (AbsentStart(r) /\ ~StartActive /\ InEndRange(r)
                    /\ AcceptsCategories(r)) => Survives(r)
            /\ (AbsentEnd(r) /\ ~EndActive /\ InStartRange(r)
                    /\ AcceptsCategories(r)) => Survives(r)

C6_Witness ==
    /\ pc = "insights"
    /\ StartActive
    /\ ~EndActive
    /\ Has("Contract End")
    /\ \E r \in Rows(df) : AbsentStart(r) /\ ~Survives(r) /\ AcceptsCategories(r)
    /\ \E r \in Rows(df) : AbsentEnd(r) /\ Survives(r)

\* C7: the bounds are inclusive.  A record whose Contract Start equals the
\* selected lower bound is not removed by the start filter, one whose
\* Contract End equals the selected upper bound is not removed by the end
\* filter, and a record strictly outside a set bound is removed.
C7_InclusiveBounds ==
    Filtered =>
        \A r \in Rows(df) :
            /\ StartActive =>
                 /\ (/\ r["Contract Start"] = <<Timestamp(start_date_filter[1])>>
                     /\ InEndRange(r) /\ AcceptsCategories(r)) => Survives(r)
                 /\ (/\ r["Contract Start"] # NaT
                     /\ r["Contract Start"][1] < Timestamp(start_date_filter[1]))
                       => ~Survives(r)
            /\ EndActive =>
                 /\ (/\ r["Contract End"] = <<Timestamp(end_date_filter[1])>>
                     /\ InStartRange(r) /\ AcceptsCategories(r)) => Survives(r)
                 /\ (/\ r["Contract End"] # NaT
                     /\ r["Contract End"][1] > Timestamp(end_date_filter[1]))
                       => ~Survives(r)

C7_Witness ==
    /\ pc = "insights"
    /\ StartActive /\ EndActive
    /\ \E r \in Rows(df) :
          /\ r["Contract Start"] = <<Timestamp(start_date_filter[1])>>
          /\ Survives(r)
    /\ \E r \in Rows(df) :
          /\ r["Contract End"] = <<Timestamp(end_date_filter[1])>>
          /\ Survives(r)
    /\ \E r \in Rows(df) :
          /\ r["Contract Start"] # NaT
          /\ r["Contract Start"][1] < Timestamp(start_date_filter[1])
          /\ ~Survives(r)
    /\ \E r \in Rows(df) :
          /\ r["Contract End"] # NaT
          /\ r["Contract End"][1] > Timestamp(end_date_filter[1])
          /\ ~Survives(r)

AllSentinels ==
    /\ finance_fy_filter = "All"
    /\ scp_fy_filter = "All"
    /\ domain_filter = "All Domains"

InDateRanges(r) == InStartRange(r) /\ InEndRange(r)

MissingCategory(r) ==
    \/ Has("FY of Savings-Finance") /\ r["FY of Savings-Finance"] = NaN
    \/ Has("FY of Savings-SCP") /\ r["FY of Savings-SCP"] = NaN
    \/ Has("Domain") /\ r["Domain"] = NaN

\* C8: a categorical filter at its accept-all sentinel removes no record,
\* whatever the record holds in that column (a missing value included):
\* a record that satisfies the other predicates survives, and with the
\* three filters at their sentinels the view is the dataset as the date
\* predicates leave it.
C8_SentinelPassesAll ==
    Filtered =>
        /\ \A r \in Rows(df) :
             /\ (finance_fy_filter = "All" /\ InDateRanges(r)
                    /\ AcceptsScpFy(r) /\ AcceptsDomain(r)) => Survives(r)
             /\ (scp_fy_filter = "All" /\ InDateRanges(r)
                    /\ AcceptsFinanceFy(r) /\ AcceptsDomain(r)) => Survives(r)
             /\ (domain_filter = "All Domains" /\ InDateRanges(r)
                    /\ AcceptsFinanceFy(r) /\ AcceptsScpFy(r)) => Survives(r)
        /\ AllSentinels =>
             filtered_df.rows = SelectSeq(df.rows, InDateRanges)

C8_Witness ==
    /\ pc = "insights"
    /\ AllSentinels
    /\ AnyDateActive
    /\ Len(filtered_df.rows) >= 2
    /\ Len(filtered_df.rows) < Len(df.rows)
    /\ \E r \in Rows(filtered_df) : MissingCategory(r)

\* C9: empty-input safety.  When the filters leave no record, the totals
\* and the positive and negative sums are 0, the count is 0, and every
\* grouped aggregate is an empty sequence.
C9_EmptyView ==
    (pc = "done" /\ Len(filtered_df.rows) = 0) =>
        /\ total_finance_savings = 0 /\ gains_finance = 0 /\ risks_finance = 0
        /\ total_scp_savings = 0 /\ gains_scp = 0 /\ risks_scp = 0
        /\ active_contracts = 0
        /\ finance_fy_data = <<>>
        /\ scp_fy_data = <<>>
        /\ domain_finance = <<>>

C9_Witness ==
    /\ pc = "done"
    /\ Len(df.rows) >= 2
    /\ Len(filtered_df.rows) = 0
    /\ df.columns = {RenameColumn(c) : c \in RawColumns}
    /\ \E r \in Rows(df) : r["Savings_Finance"] # 0

Normalized == pc \in {"filters", "apply"} \/ Filtered

Unparseable(cell) == cell.k \in {"text", "missing"}

RawFinance(i) == sheet.rows[i]["Difference (PA)-Finance"]
RawScp(i) == sheet.rows[i]["Difference (PA) -SCP"]

RECURSIVE SumOver(_, _)
SumOver(S, f) ==
    IF S = {} THEN 0
    ELSE LET i == CHOOSE x \in S : TRUE IN f[i] + SumOver(S \ {i}, f)

\* the parseable raw values of a sheet column, 0 where the cell does not parse
Parsed(col) ==
    [i \in 1..Len(sheet.rows) |->
        IF Unparseable(sheet.rows[i][col]) THEN 0 ELSE sheet.rows[i][col].v]

\* C10: normalization is total and null-free on the measure columns.
\* Every input record gives exactly one output record, every measure cell
\* is a number, a missing or unparseable measure is 0, and such a record
\* is counted but adds to neither the positive nor the negative sum.
C10_NormalizeTotal ==
    /\ Normalized =>
         /\ Len(df.rows) = Len(sheet.rows)
         /\ \A i \in 1..Len(df.rows) :
              /\ df.rows[i]["Savings_Finance"] \in Int
              /\ df.rows[i]["Savings_SCP"] \in Int
              /\ Unparseable(RawFinance(i)) => df.rows[i]["Savings_Finance"] = 0
              /\ Unparseable(RawScp(i)) => df.rows[i]["Savings_SCP"] = 0
              /\ ~Unparseable(RawFinance(i)) =>
                     df.rows[i]["Savings_Finance"] = RawFinance(i).v
              /\ ~Unparseable(RawScp(i)) =>
                     df.rows[i]["Savings_SCP"] = RawScp(i).v
    /\ (pc = "done" /\ filtered_df = df) =>
         LET fin == Parsed("Difference (PA)-Finance")
             scp == Parsed("Difference (PA) -SCP")
             n == Len(sheet.rows)
         IN /\ active_contracts = n
            /\ gains_finance = SumOver({i \in 1..n : fin[i] > 0}, fin)
            /\ risks_finance = SumOver({i \in 1..n : fin[i] < 0}, fin)
            /\ gains_scp = SumOver({i \in 1..n : scp[i] > 0}, scp)
            /\ risks_scp = SumOver({i \in 1..n : scp[i] < 0}, scp)

C10_Witness ==
    /\ pc = "done"
    /\ filtered_df = df
    /\ Len(sheet.rows) = MaxRows
    /\ \E i \in 1..Len(sheet.rows) : RawFinance(i).k = "text"
    /\ \E i \in 1..Len(sheet.rows) : RawFinance(i).k = "missing"
    /\ \E i \in 1..Len(sheet.rows) : RawScp(i).k = "text"
    /\ gains_finance + gains_scp > 0
Preprocessed == pc \in {"filters", "key_error"}

MissingMeasure ==
    ~({"Difference (PA)-Finance", "Difference (PA) -SCP"} \subseteq sheet.columns)
MissingDate == ~({"Contract Start", "Contract End"} \subseteq sheet.columns)

C12_TieBreakByCategory ==
    (ChartsDone /\ Has("Domain")) =>
        \A i, j \in 1..Len(domain_finance) :
            (i < j /\ domain_finance[i].value = domain_finance[j].value) =>
                StrLess(domain_finance[i].category, domain_finance[j].category)
SatisfiesAll(r) == InStartRange(r) /\ InEndRange(r) /\ AcceptsCategories(r)

\* C13: the filtered view is exactly the subsequence of the normalized
\* dataset whose records satisfy every active predicate (start date, end
\* date, Finance FY, SCP FY, Domain), in the dataset's order and with its
\* columns, and filtering leaves the normalized dataset as it was.
C13_FilteredSubsequence ==
    Filtered =>
        /\ filtered_df.columns = df.columns
        /\ filtered_df.rows = SelectSeq(df.rows, SatisfiesAll)
        /\ df = Normalize(sheet)

C13_Witness ==
    /\ pc = "insights"
    /\ StartActive /\ EndActive /\ scp_fy_filter # "All"
    /\ Len(df.rows) = 3
    /\ Len(filtered_df.rows) = 2
    /\ filtered_df.rows[1] # filtered_df.rows[2]
    /\ filtered_df.rows = <<df.rows[1], df.rows[3]>>
    /\ ~Survives(df.rows[2])
Returned == pc \in {"loaded", "load_failed"}
SourceOrder == <<"direct", "original", "local">>
LastAttempt == attempts[Len(attempts)]

\* what the claim counts as a success of an attempt
Qualifies(a) ==
    IF a.source = "local"
    THEN a.resp.parsed = "frame"
    ELSE /\ a.resp.status_code = HttpOk
         /\ a.resp.content_len > MinContent
         /\ a.resp.parsed = "frame"
         /\ Len(a.resp.frame.rows) > 0

SuccessMessage(source) ==
    CASE source = "direct" -> MsgDirect
      [] source = "original" -> MsgOriginal
      [] OTHER -> MsgLocal

\* C14: the loader tries the direct-download URL, then the original URL,
\* then the local file, and returns at the first success: nothing is tried
\* after a success, the local file is read only after both remote attempts
\* failed, a remote attempt is a success only with status 200, more than
\* 1000 bytes and a non-empty parsed sheet, (None, message) is returned only
\* when all three sources failed, and no exception escapes.
C14_LoaderFallbackOrder ==
    /\ pc # "escaped"
    /\ Len(attempts) <= 3
    /\ \A i \in 1..Len(attempts) : attempts[i].source = SourceOrder[i]
    /\ Len(attempts) >= 1 =>
          attempts[1].url = get_onedrive_direct_link(onedrive_url)
    /\ Len(attempts) >= 2 => attempts[2].url = onedrive_url
    /\ \A i \in 1..Len(attempts) :
          Qualifies(attempts[i]) <=> (i = Len(attempts) /\ pc = "loaded")
    /\ pc = "loaded" =>
          /\ Len(attempts) >= 1
          /\ df = LastAttempt.resp.frame
          /\ load_message = SuccessMessage(LastAttempt.source)
    /\ pc = "load_failed" =>
          /\ Len(attempts) = 3
          /\ df = EmptyFrame
          /\ load_message \in {MsgNoLocal, MsgLocalError}
          /\ load_message = MsgNoLocal <=>
                LastAttempt.resp.raised = "FileNotFoundError"

C14_Witness ==
    /\ pc = "loaded"
    /\ Len(attempts) = 3
    /\ onedrive_url = default_url
    /\ attempts[1].url.appended = "&download=1"
    /\ attempts[1].resp.status_code = HttpOk
    /\ attempts[1].resp.content_len = MinContent
    /\ attempts[2].resp.parsed = "frame"
    /\ Len(attempts[2].resp.frame.rows) = 0
    /\ Len(df.rows) > 0
    /\ load_message = MsgLocal
====
